---------------------------- MODULE Spec2Model ----------------------------
(***************************************************************************)
(* A model of cosmic-edit's configuration helpers (src/src/config.rs) and  *)
(* of its menu bar construction (src/src/menu.rs).                         *)
(*                                                                         *)
(* Config's derived values are computed in IEEE-754 binary32 (Rust f32).   *)
(* A float is modelled exactly, as a record [s, m, e] of value             *)
(* s * m * 2^e with s in {1, -1} and a 24 bit mantissa 2^23 <= m < 2^24;   *)
(* zero is [s |-> 1, m |-> 0, e |-> 0].  Every operation rounds to nearest,*)
(* ties to even, as the hardware does.  The values the program can form    *)
(* lie between 2^-30 and 2^18 in magnitude, so subnormals, infinities and  *)
(* NaN never arise and are not modelled; a negative zero is written as     *)
(* zero, which no operation used here distinguishes.                       *)
(***************************************************************************)
EXTENDS Integers, Sequences, FiniteSets, TLC

---------------------------------------------------------------------------
(* binary32 arithmetic *)

\* The number of bits of the natural number n.
RECURSIVE BitLen(_)
BitLen(n) == IF n = 0 THEN 0 ELSE 1 + BitLen(n \div 2)

Abs(n) == IF n < 0 THEN -n ELSE n

F32Zero == [s |-> 1, m |-> 0, e |-> 0]

\* q + r/d rounded to the nearest integer, ties to the even one (0 <= r < d).
RoundNearestEven(q, r, d) ==
    IF r > d - r \/ (r = d - r /\ q % 2 = 1) THEN q + 1 ELSE q

\* The float nearest to s * n * 2^e, for a natural n below 2^31.
F32Round(s, n, e) ==
    IF n = 0 THEN F32Zero
    ELSE LET b == BitLen(n) IN
         IF b <= 24
         THEN [s |-> s, m |-> n * 2^(24 - b), e |-> e - (24 - b)]
         ELSE LET d == 2^(b - 24)
                  q == RoundNearestEven(n \div d, n % d, d)
              IN  IF q = 2^24
                  THEN [s |-> s, m |-> 2^23, e |-> e + (b - 24) + 1]
                  ELSE [s |-> s, m |-> q, e |-> e + (b - 24)]

\* f32::from(u16), f32::from(i8): every such integer is a float.
F32FromInt(n) == F32Round(IF n < 0 THEN -1 ELSE 1, Abs(n), 0)

\* x < y on floats.
F32MagLt(x, y) ==
    IF x.m = 0 \/ y.m = 0 THEN x.m = 0 /\ y.m # 0
    ELSE x.e < y.e \/ (x.e = y.e /\ x.m < y.m)

F32Lt(x, y) ==
    CASE x.m = 0 /\ y.m = 0 -> FALSE
      [] x.s = 1 /\ y.s = 1 -> F32MagLt(x, y)
      [] x.s = -1 /\ y.s = -1 -> F32MagLt(y, x)
      [] OTHER -> IF x.m = 0 THEN y.s = 1
                  ELSE IF y.m = 0 THEN x.s = -1
                  ELSE x.s = -1

F32Le(x, y) == ~F32Lt(y, x)

\* f32::max
F32Max(x, y) == IF F32Lt(x, y) THEN y ELSE x

\* Long division: the quotient bits of r/d, `bits` of them, and the remainder
\* left, as <<quotient, remainder>> (r < d on entry).
RECURSIVE LongDiv(_, _, _, _)
LongDiv(q, r, d, bits) ==
    IF bits = 0 THEN <<q, r>>
    ELSE IF 2 * r >= d THEN LongDiv(2 * q + 1, 2 * r - d, d, bits - 1)
         ELSE LongDiv(2 * q, 2 * r, d, bits - 1)

\* x / y, y not zero: 26 quotient bits and a sticky bit for the rest, rounded.
F32Div(x, y) ==
    IF x.m = 0 THEN F32Zero
    ELSE LET qr == LongDiv(x.m \div y.m, x.m % y.m, y.m, 25)
             n  == 2 * qr[1] + (IF qr[2] # 0 THEN 1 ELSE 0)
         IN  F32Round(x.s * y.s, n, x.e - y.e - 26)

\* x * y: the 48 bit product of the mantissas in 12 bit limbs, as
\* hi * 2^24 + lo, then its leading bits and a sticky bit, rounded.
F32Mul(x, y) ==
    IF x.m = 0 \/ y.m = 0 THEN F32Zero
    ELSE LET limb == 2^12
             xh == x.m \div limb
             xl == x.m % limb
             yh == y.m \div limb
             yl == y.m % limb
             mid == xh * yl + xl * yh
             low == (mid % limb) * limb + xl * yl
             lo == low % 2^24
             hi == xh * yh + mid \div limb + low \div 2^24
             n  == 2 * (4 * hi + lo \div 2^22)
                     + (IF lo % 2^22 # 0 THEN 1 ELSE 0)
         IN  F32Round(x.s * y.s, n, x.e + y.e + 21)

\* x + y: the operand of smaller magnitude is aligned to the larger one with
\* a guard, a round and a sticky bit, then the sum or difference is rounded.
F32Add(x, y) ==
    IF x.m = 0 THEN y
    ELSE IF y.m = 0 THEN x
    ELSE LET big   == IF F32MagLt(x, y) THEN y ELSE x
             small == IF F32MagLt(x, y) THEN x ELSE y
             d     == big.e - small.e
             a     == 8 * big.m
             b     == IF d >= 28 THEN 1
                      ELSE LET p == 2^d IN
                           LET t == (8 * small.m) \div p IN
                           IF (8 * small.m) % p = 0 \/ t % 2 = 1 THEN t
                           ELSE t + 1
         IN  IF big.s = small.s THEN F32Round(big.s, a + b, big.e - 3)
             ELSE F32Round(big.s, a - b, big.e - 3)

\* f32::ceil
F32Ceil(x) ==
    IF x.m = 0 \/ x.e >= 0 THEN x
    ELSE IF x.e <= -24 THEN (IF x.s = 1 THEN F32FromInt(1) ELSE F32Zero)
    ELSE LET p == 2^(-x.e)
             q == x.m \div p
         IN  IF x.s = 1
             THEN F32FromInt(IF x.m % p = 0 THEN q ELSE q + 1)
             ELSE F32FromInt(-q)

---------------------------------------------------------------------------
(* Config (src/src/config.rs) *)

U16Max == 65535
I8Min == -128
I8Max == 127

\* Bounds of the model's inputs.
MaxFontSize == 16
MaxZoomStep == 3

\* enum AppTheme
AppTheme == {"Dark", "Light", "System"}

\* impl Default for Config.  keybinds is the table menu_bar reads
\* (config.keybinds); it is empty here and set by Init.
Config_default ==
    [app_theme |-> "System",
     auto_indent |-> TRUE,
     find_case_sensitive |-> FALSE,
     find_use_regex |-> FALSE,
     find_wrap_around |-> TRUE,
     font_name |-> "Noto Sans Mono",
     font_size |-> 14,
     font_size_zoom_step_mul_100 |-> 100,
     highlight_current_line |-> TRUE,
     line_numbers |-> TRUE,
     syntax_theme_dark |-> "COSMIC Dark",
     syntax_theme_light |-> "COSMIC Light",
     tab_width |-> 4,
     vim_bindings |-> FALSE,
     word_wrap |-> TRUE,
     keybinds |-> <<>>]

VARIABLES
    cfg,          \* the Config the application shell owns
    host_dark,    \* whether the host reports a preference for a dark theme
    last          \* the last call made on cfg, its arguments and what it returned

vars == <<cfg, host_dark, last>>

\* The zoom offsets a caller can pass: every i8.
ZoomOffsets == I8Min..I8Max

\* The stored font sizes and zoom steps the model starts from: the small ones,
\* the steps that are exact in binary, and the largest u16.
FontSizes == (0..MaxFontSize) \cup {U16Max}
ZoomSteps == (0..MaxZoomStep) \cup {25 * k : k \in 1..8} \cup {U16Max}

F32One == F32FromInt(1)

\* The literal 1.4 as an f32: 11744051 * 2^-23.
F32_1_4 == F32Div(F32FromInt(14), F32FromInt(10))

\* Mutants of font_size_adjusted: the result is not floored at 1.0; the stored
\* font size is not clamped to 1.
font_size_adjusted_no_floor(self, zoom_adj) ==
    LET font_size == F32Max(F32FromInt(self.font_size), F32One)
        adj       == F32FromInt(zoom_adj)
        adj_step  == F32Div(F32FromInt(self.font_size_zoom_step_mul_100),
                            F32FromInt(100))
    IN  F32Add(font_size, F32Mul(adj, adj_step))

font_size_adjusted_no_clamp(self, zoom_adj) ==
    LET font_size == F32FromInt(self.font_size)
        adj       == F32FromInt(zoom_adj)
        adj_step  == F32Div(F32FromInt(self.font_size_zoom_step_mul_100),
                            F32FromInt(100))
    IN  F32Max(F32Add(font_size, F32Mul(adj, adj_step)), F32One)

\* Config::font_size_adjusted
font_size_adjusted(self, zoom_adj) ==
    LET font_size == F32Max(F32FromInt(self.font_size), F32One)
        adj       == F32FromInt(zoom_adj)
        adj_step  == F32Div(F32FromInt(self.font_size_zoom_step_mul_100),
                            F32FromInt(100))
    IN  F32Max(F32Add(font_size, F32Mul(adj, adj_step)), F32One)

\* Mutant of metrics: the line height is rounded down.
metrics_floor(self, zoom_adj) ==
    LET font_size   == font_size_adjusted(self, zoom_adj)
        p           == F32Mul(font_size, F32_1_4)
        c           == F32Ceil(p)
        line_height == IF c = p THEN c ELSE F32Add(c, F32FromInt(-1))
    IN  [font_size |-> font_size, line_height |-> line_height]

\* Config::metrics; Metrics::new stores its two arguments.
metrics(self, zoom_adj) ==
    LET font_size   == font_size_adjusted(self, zoom_adj)
        line_height == F32Ceil(F32Mul(font_size, F32_1_4))
    IN  [font_size |-> font_size, line_height |-> line_height]

\* Whether the caller holds no result: `last` is the frame of the call being
\* made, and the calls are synchronous, one at a time.
Idle == last.op = "none"

\* The caller takes the value returned and is free to call again.
Return ==
    /\ ~Idle
    /\ last' = [op |-> "none"]
    /\ UNCHANGED <<cfg, host_dark>>

\* Mutant of FontSizeAdjusted: the clamped font size is written back to cfg.
FontSizeAdjusted_stores_clamp(zoom_adj) ==
    /\ Idle
    /\ last' = [op |-> "font_size_adjusted", zoom_adj |-> zoom_adj,
                ret |-> font_size_adjusted(cfg, zoom_adj)]
    /\ cfg' = [cfg EXCEPT !.font_size = IF @ < 1 THEN 1 ELSE @]
    /\ UNCHANGED host_dark

\* A call of cfg.font_size_adjusted(zoom_adj): &self, so cfg is only read.
FontSizeAdjusted(zoom_adj) ==
    /\ Idle
    /\ last' = [op |-> "font_size_adjusted", zoom_adj |-> zoom_adj,
                ret |-> font_size_adjusted(cfg, zoom_adj)]
    /\ UNCHANGED <<cfg, host_dark>>

\* A call of cfg.metrics(zoom_adj).
Metrics(zoom_adj) ==
    /\ Idle
    /\ last' = [op |-> "metrics", zoom_adj |-> zoom_adj,
                ret |-> metrics(cfg, zoom_adj)]
    /\ UNCHANGED <<cfg, host_dark>>

\* The font-metrics helpers alone, over every zoom offset.
InitFont ==
    /\ cfg \in {[Config_default EXCEPT !.font_size = f,
                                       !.font_size_zoom_step_mul_100 = s] :
                    f \in FontSizes, s \in ZoomSteps}
    /\ host_dark = FALSE
    /\ last = [op |-> "none"]

NextFont ==
    \/ \E z \in ZoomOffsets : FontSizeAdjusted(z)
    \/ \E z \in ZoomOffsets : Metrics(z)
    \/ Return

SpecFont == InitFont /\ [][NextFont]_vars

---------------------------------------------------------------------------
(* Claims about the font metrics *)

\* The whole number n when the float x is n, for 0 <= n < 2^24.
F32IntValue(x) == IF x.m = 0 THEN 0 ELSE x.m \div 2^(-x.e)

F32IsWhole(x) == x.m = 0 \/ x.e >= 0 \/ (x.e > -24 /\ x.m % 2^(-x.e) = 0)

\* floor(100 * x) for a float 1 <= x < 2^18.
Hundredths(x) ==
    LET p == 2^(-x.e) IN (x.m \div p) * 100 + ((x.m % p) * 100) \div p

\* 100 * max(1, max(1, font_size) + zoom_adj * step / 100), in the integers.
Exact100(c, zoom_adj) ==
    LET fs == IF c.font_size < 1 THEN 1 ELSE c.font_size
        v  == fs * 100 + zoom_adj * c.font_size_zoom_step_mul_100
    IN  IF v < 100 THEN 100 ELSE v

\* C1: font_size_adjusted(z) is at least 1.0 for every zoom offset, zoom step
\* and stored font size, a font size of 0 included.
C1_AtLeastOne ==
    last.op = "font_size_adjusted" => F32Le(F32One, last.ret)

\* A zoom far below the font size, and a stored font size of 0, were floored.
C1_Witness ==
    /\ last.op = "font_size_adjusted"
    /\ cfg.font_size = 0
    /\ last.zoom_adj = I8Min
    /\ cfg.font_size_zoom_step_mul_100 = 100
    /\ last.ret = F32One

\* C2: font_size_adjusted(z) is max(1, max(1, font_size) + z * (step / 100)):
\* exactly so wherever that value is a float reached without rounding (z = 0,
\* or a step that is a multiple of 0.25), and to within the rounding of three
\* f32 operations (under two hundredths below 2^18) everywhere else.  With
\* z = 0 it is the font size, and 1 for a font size of 0.
C2_Formula ==
    last.op = "font_size_adjusted" =>
        LET z == last.zoom_adj
            v == Exact100(cfg, z)
            h == Hundredths(last.ret)
        IN  /\ v - 2 <= h /\ h <= v + 1
            /\ cfg.font_size_zoom_step_mul_100 % 25 = 0 =>
                   last.ret = F32Div(F32FromInt(v \div 25), F32FromInt(4))
            /\ z = 0 =>
                   last.ret = F32FromInt(IF cfg.font_size >= 1
                                         THEN cfg.font_size ELSE 1)

\* A font size of 0 zoomed in by one whole step gives 2, not 1.
C2_Witness ==
    /\ last.op = "font_size_adjusted"
    /\ cfg.font_size = 0
    /\ last.zoom_adj = 1
    /\ cfg.font_size_zoom_step_mul_100 = 100
    /\ last.ret = F32FromInt(2)

\* C3: metrics(z) has the font size font_size_adjusted(z), and its line height
\* is the ceiling of font size * 1.4 in f32: a whole number, the least one not
\* below the product, and so never below the font size.  For a whole font
\* size n it is the exact ceiling of 7n/5.
C3_LineHeight ==
    last.op = "metrics" =>
        LET fs == last.ret.font_size
            lh == last.ret.line_height
            p  == F32Mul(fs, F32_1_4)
        IN  /\ fs = font_size_adjusted(cfg, last.zoom_adj)
            /\ F32IsWhole(lh)
            /\ F32Le(p, lh)
            /\ F32Lt(F32FromInt(F32IntValue(lh) - 1), p)
            /\ F32Le(fs, lh)
            /\ F32IsWhole(fs) =>
                   F32IntValue(lh) = (7 * F32IntValue(fs) + 4) \div 5

\* The default 14 gives 20 (19.6 rounded up); a size whose product with 1.4 is
\* whole is also a case: 5 gives exactly 7.
C3_Witness ==
    /\ last.op = "metrics"
    /\ cfg.font_size = 14
    /\ last.zoom_adj = 0
    /\ last.ret.font_size = F32FromInt(14)
    /\ last.ret.line_height = F32FromInt(20)

---------------------------------------------------------------------------
(* Search patterns: Config::find_regex and the regex crate it calls *)

\* A string is a sequence of characters, a character a one-character string.
\* The model's characters: a letter in both cases, and four of the regex
\* crate's metacharacters.  No ")" is among them, so no group can be closed.
MaxPatLen == 2
MaxTextLen == 3

PatChars == {"e", "E", ".", "*", "(", "\\"}
TextChars == PatChars

SeqsUpTo(S, n) == UNION {[1..k -> S] : k \in 0..n}

Patterns == SeqsUpTo(PatChars, MaxPatLen)
Texts == SeqsUpTo(TextChars, MaxTextLen)

\* regex_syntax::is_meta_character
MetaChars ==
    {"\\", ".", "+", "*", "?", "(", ")", "|", "[", "]", "{", "}", "^", "$",
     "#", "&", "-", "~"}

\* regex::escape: a backslash before every metacharacter.
RECURSIVE regex_escape(_)
regex_escape(text) ==
    IF text = <<>> THEN <<>>
    ELSE (IF Head(text) \in MetaChars THEN <<"\\", Head(text)>>
          ELSE <<Head(text)>>) \o regex_escape(Tail(text))

\* The regex crate's parser on the model's characters.  The pattern is a
\* concatenation of atoms, each a literal character or "." (any character),
\* each under "*" or not (a repetition of a repetition is a repetition).
\* Errors: a backslash that ends the pattern, a backslash before a character
\* that is no metacharacter and no escape the crate knows ("e", "E"), a "*"
\* with nothing before it, and a "(" (never closed).
RECURSIVE regex_parse(_, _, _)
regex_parse(pattern, i, atoms) ==
    IF i > Len(pattern) THEN [ok |-> TRUE, atoms |-> atoms]
    ELSE LET c == pattern[i] IN
         CASE c = "\\" ->
                  IF i = Len(pattern)
                  THEN [ok |-> FALSE, error |-> "EscapeUnexpectedEof"]
                  ELSE IF pattern[i + 1] \in MetaChars
                  THEN regex_parse(pattern, i + 2,
                           Append(atoms, [kind |-> "literal",
                                          c |-> pattern[i + 1],
                                          star |-> FALSE]))
                  ELSE [ok |-> FALSE, error |-> "EscapeUnrecognized"]
           [] c = "(" -> [ok |-> FALSE, error |-> "GroupUnclosed"]
           [] c = "*" ->
                  IF atoms = <<>>
                  THEN [ok |-> FALSE, error |-> "RepetitionMissing"]
                  ELSE regex_parse(pattern, i + 1,
                           [atoms EXCEPT ![Len(atoms)].star = TRUE])
           [] c = "." ->
                  regex_parse(pattern, i + 1,
                      Append(atoms, [kind |-> "any", c |-> ".",
                                     star |-> FALSE]))
           [] OTHER ->
                  regex_parse(pattern, i + 1,
                      Append(atoms, [kind |-> "literal", c |-> c,
                                     star |-> FALSE]))

\* RegexBuilder::new: case sensitive until told otherwise.
RegexBuilder_new(pattern) ==
    [pattern |-> pattern, case_insensitive |-> FALSE]

\* RegexBuilder::case_insensitive
RegexBuilder_case_insensitive(builder, yes) ==
    [builder EXCEPT !.case_insensitive = yes]

\* RegexBuilder::build: Ok(Regex) or Err(regex::Error).
RegexBuilder_build(builder) ==
    LET parsed == regex_parse(builder.pattern, 1, <<>>) IN
    IF parsed.ok
    THEN [kind |-> "Ok",
          regex |-> [atoms |-> parsed.atoms,
                     case_insensitive |-> builder.case_insensitive]]
    ELSE [kind |-> "Err", error |-> parsed.error]

\* Simple case folding.
Fold(c) == IF c = "E" THEN "e" ELSE c

FoldSeq(text) == [i \in 1..Len(text) |-> Fold(text[i])]

AtomMatches(atom, c, case_insensitive) ==
    \/ atom.kind = "any"
    \/ atom.c = c
    \/ case_insensitive /\ Fold(atom.c) = Fold(c)

\* Where a match of atoms j.. that starts at text[i] can end (the position
\* after its last character).
RECURSIVE MatchEnds(_, _, _, _)
MatchEnds(regex, text, j, i) ==
    IF j > Len(regex.atoms) THEN {i}
    ELSE LET atom == regex.atoms[j]
             hit  == /\ i <= Len(text)
                     /\ AtomMatches(atom, text[i], regex.case_insensitive)
         IN  IF atom.star
             THEN MatchEnds(regex, text, j + 1, i)
                    \cup (IF hit THEN MatchEnds(regex, text, j, i + 1) ELSE {})
             ELSE IF hit THEN MatchEnds(regex, text, j + 1, i + 1) ELSE {}

\* Every <<start, end>> at which the regex matches text[start .. end - 1]:
\* the spans Regex::find and find_iter report are among these.
MatchSpans(regex, text) ==
    {<<i, k>> : i \in 1..(Len(text) + 1), k \in 0..(Len(text) + 1)} \cap
    UNION {{<<i, k>> : k \in MatchEnds(regex, text, 1, i)} :
               i \in 1..(Len(text) + 1)}

\* Regex::is_match
is_match(regex, text) == MatchSpans(regex, text) # {}

\* Mutants of find_regex: the pattern is never escaped; it is always escaped;
\* the case flag is passed on without being inverted.
find_regex_never_escaped(self, pattern) ==
    RegexBuilder_build(
        RegexBuilder_case_insensitive(RegexBuilder_new(pattern),
                                      ~self.find_case_sensitive))

find_regex_always_escaped(self, pattern) ==
    RegexBuilder_build(
        RegexBuilder_case_insensitive(RegexBuilder_new(regex_escape(pattern)),
                                      ~self.find_case_sensitive))

find_regex_flag_not_inverted(self, pattern) ==
    LET builder == IF self.find_use_regex
                   THEN RegexBuilder_new(pattern)
                   ELSE RegexBuilder_new(regex_escape(pattern))
    IN  RegexBuilder_build(
            RegexBuilder_case_insensitive(builder, self.find_case_sensitive))

\* Config::find_regex
find_regex(self, pattern) ==
    LET builder == IF self.find_use_regex
                   THEN RegexBuilder_new(pattern)
                   ELSE RegexBuilder_new(regex_escape(pattern))
    IN  RegexBuilder_build(
            RegexBuilder_case_insensitive(builder, ~self.find_case_sensitive))

\* A call of cfg.find_regex(pattern).
FindRegex(pattern) ==
    /\ Idle
    /\ last' = [op |-> "find_regex", pattern |-> pattern,
                ret |-> find_regex(cfg, pattern)]
    /\ UNCHANGED <<cfg, host_dark>>

\* The search helper alone, in its four modes.
InitFind ==
    /\ cfg \in {[Config_default EXCEPT !.find_use_regex = r,
                                       !.find_case_sensitive = c] :
                    r \in BOOLEAN, c \in BOOLEAN}
    /\ host_dark = FALSE
    /\ last = [op |-> "none"]

NextFind ==
    \/ \E pattern \in Patterns : FindRegex(pattern)
    \/ Return

SpecFind == InitFind /\ [][NextFind]_vars

---------------------------------------------------------------------------
(* Claims about the search patterns *)

Compiled == last.op = "find_regex" /\ last.ret.kind = "Ok"

Span(text, span) == SubSeq(text, span[1], span[2] - 1)

\* The texts that differ from the pattern in letter case and in nothing else.
CaseVariants(pattern) ==
    {t \in Texts : t # pattern /\ FoldSeq(t) = FoldSeq(pattern)}

\* C4 as stated: in literal mode every match is an occurrence of the pattern,
\* character for character.
C4_ExactOnly ==
    (Compiled /\ ~cfg.find_use_regex) =>
        \A text \in Texts : \A span \in MatchSpans(last.ret.regex, text) :
            Span(text, span) = last.pattern

\* C4, amended: in literal mode the pattern always compiles, and every match is
\* an occurrence of the pattern, character for character when
\* find_case_sensitive is true and up to letter case when it is false; every
\* such occurrence is matched.
C4_LiteralOnly ==
    (last.op = "find_regex" /\ ~cfg.find_use_regex) =>
        /\ last.ret.kind = "Ok"
        /\ \A text \in Texts :
               MatchSpans(last.ret.regex, text) =
                   {span \in (1..(Len(text) + 1)) \X (1..(Len(text) + 1)) :
                       /\ span[2] = span[1] + Len(last.pattern)
                       /\ IF cfg.find_case_sensitive
                          THEN Span(text, span) = last.pattern
                          ELSE FoldSeq(Span(text, span)) = FoldSeq(last.pattern)}

\* The literal pattern ".e" was compiled case sensitively: it matches ".e" and
\* not "ee", which it would match as a regular expression.
C4_Witness ==
    /\ Compiled
    /\ ~cfg.find_use_regex
    /\ cfg.find_case_sensitive
    /\ last.pattern = <<".", "e">>
    /\ is_match(last.ret.regex, <<".", "e">>)
    /\ ~is_match(last.ret.regex, <<"e", "e">>)

\* The patterns of the model that are no regular expression, listed by hand
\* and apart from the parser: an unclosed group, a repetition of nothing, a
\* dangling backslash, an escape of a letter.
InvalidPatterns ==
    {<<"(">>, <<"e", "(">>, <<"(", "e">>, <<"*">>, <<"*", "e">>, <<"\\">>,
     <<"e", "\\">>, <<"\\", "e">>, <<"\\", "E">>, <<".", "(">>}

\* C5: in regex mode an invalid pattern makes find_regex return the error to
\* its caller, no compiled pattern.
C5_InvalidIsErr ==
    (last.op = "find_regex" /\ cfg.find_use_regex
        /\ last.pattern \in InvalidPatterns) =>
        /\ last.ret.kind = "Err"
        /\ last.ret.error \in {"GroupUnclosed", "RepetitionMissing",
                               "EscapeUnexpectedEof", "EscapeUnrecognized"}

\* "e(" was rejected in regex mode.
C5_Witness ==
    /\ last.op = "find_regex"
    /\ cfg.find_use_regex
    /\ last.pattern = <<"e", "(">>
    /\ last.ret.kind = "Err"

\* C9 as stated: the pattern is compiled case insensitively exactly when
\* find_case_sensitive is false, and in both modes a text that differs from
\* the pattern only in letter case is matched exactly then.
C9_AsStated ==
    Compiled =>
        /\ last.ret.regex.case_insensitive = ~cfg.find_case_sensitive
        /\ \A text \in CaseVariants(last.pattern) :
               is_match(last.ret.regex, text) = ~cfg.find_case_sensitive

\* C9, amended: the pattern is compiled case insensitively exactly when
\* find_case_sensitive is false, in both modes; a text that differs from the
\* pattern only in letter case is matched exactly then in literal mode, and in
\* regex mode when the pattern has no metacharacter.
C9_CaseFlag ==
    Compiled =>
        /\ last.ret.regex.case_insensitive = ~cfg.find_case_sensitive
        /\ (~cfg.find_use_regex
               \/ \A i \in 1..Len(last.pattern) : last.pattern[i] \notin MetaChars)
           => \A text \in CaseVariants(last.pattern) :
                  is_match(last.ret.regex, text) = ~cfg.find_case_sensitive

\* The default configuration (find_case_sensitive false) matched "E" with "e".
C9_Witness ==
    /\ Compiled
    /\ cfg = Config_default
    /\ last.pattern = <<"e">>
    /\ <<"E">> \in CaseVariants(last.pattern)
    /\ is_match(last.ret.regex, <<"E">>)

---------------------------------------------------------------------------
(* Themes: AppTheme::theme and Config::syntax_theme *)

\* libcosmic's theme::system_dark and theme::system_light: the host's dark and
\* light themes, wrapped as ThemeType::System with no preference recorded.
theme_system_dark ==
    [theme_type |-> [prefer_dark |-> <<>>, is_dark |-> TRUE]]

theme_system_light ==
    [theme_type |-> [prefer_dark |-> <<>>, is_dark |-> FALSE]]

\* theme::system_preference: the one of the two the host asks for.
theme_system_preference(host) ==
    IF host THEN theme_system_dark ELSE theme_system_light

\* ThemeType::prefer_dark records the preference; it does not change the theme.
ThemeType_prefer_dark(t, preference) ==
    [t EXCEPT !.theme_type.prefer_dark = preference]

\* ThemeType::is_dark
ThemeType_is_dark(theme_type) == theme_type.is_dark

\* AppTheme::theme
AppTheme_theme(self, host) ==
    CASE self = "Dark" -> ThemeType_prefer_dark(theme_system_dark, <<TRUE>>)
      [] self = "Light" -> ThemeType_prefer_dark(theme_system_light, <<FALSE>>)
      [] self = "System" -> theme_system_preference(host)

\* Mutant of syntax_theme: the two branches are swapped.
syntax_theme_swapped(self, host) ==
    LET dark == ThemeType_is_dark(AppTheme_theme(self.app_theme, host).theme_type)
    IN  IF dark THEN self.syntax_theme_light ELSE self.syntax_theme_dark

\* Config::syntax_theme
syntax_theme(self, host) ==
    LET dark == ThemeType_is_dark(AppTheme_theme(self.app_theme, host).theme_type)
    IN  IF dark THEN self.syntax_theme_dark ELSE self.syntax_theme_light

\* A call of cfg.syntax_theme().
SyntaxTheme ==
    /\ Idle
    /\ last' = [op |-> "syntax_theme", ret |-> syntax_theme(cfg, host_dark)]
    /\ UNCHANGED <<cfg, host_dark>>

---------------------------------------------------------------------------
(* The menu bar (src/src/menu.rs) *)

\* The messages the menu binds.
Messages == {"New", "OpenFileDialog", "Save", "Todo"}

\* The key bindings and the messages the model's tables are made of: two
\* bindings, so that one message can be bound twice, and a message no table
\* binds (OpenFileDialog).
KeyBinds ==
    {[modifiers |-> <<"Ctrl">>, key |-> "N"],
     [modifiers |-> <<"Ctrl", "Shift">>, key |-> "S"]}

BoundMessages == Messages \ {"OpenFileDialog"}

MaxKeybinds == 2

KeybindTables == SeqsUpTo(KeyBinds \X BoundMessages, MaxKeybinds)

\* KeyBind's to_string: the modifiers, then the key, joined by " + ".
RECURSIVE KeyBind_to_string_from(_, _)
KeyBind_to_string_from(modifiers, key) ==
    IF modifiers = <<>> THEN key
    ELSE Head(modifiers) \o " + " \o KeyBind_to_string_from(Tail(modifiers), key)

KeyBind_to_string(key_bind) ==
    KeyBind_to_string_from(key_bind.modifiers, key_bind.key)

\* fl!: the localised text of a message id is written as the id, and as the id
\* and its argument.
fl(id) == id

fl_tab_width(id, tab_width) == id \o " " \o ToString(tab_width)

\* menu_root, and the menu_button! of a folder: a label and ">", no message.
menu_root(label) == [widget |-> "root", label |-> label]

menu_folder(label) ==
    [widget |-> "button", label |-> label, key |-> ">", on_press |-> <<>>]

horizontal_rule == [widget |-> "rule"]

MenuTree_new(item) == [item |-> item, children |-> <<>>]

MenuTree_with_children(item, children) ==
    [item |-> item, children |-> children]

\* The loop of menu_item over config.keybinds.iter() from entry i on: the text
\* of the first entry bound to the message, and key as it stands if there is
\* none.
RECURSIVE menu_item_scan(_, _, _, _)
menu_item_scan(keybinds, i, message, key) ==
    IF i > Len(keybinds) THEN key
    ELSE IF keybinds[i][2] = message THEN KeyBind_to_string(keybinds[i][1])
    ELSE menu_item_scan(keybinds, i + 1, message, key)

\* Mutant of the loop: no break, so the last entry bound to the message wins.
RECURSIVE menu_item_scan_no_break(_, _, _, _)
menu_item_scan_no_break(keybinds, i, message, key) ==
    IF i > Len(keybinds) THEN key
    ELSE menu_item_scan_no_break(keybinds, i + 1, message,
             IF keybinds[i][2] = message
             THEN KeyBind_to_string(keybinds[i][1]) ELSE key)

menu_item_no_break(config, label, message) ==
    MenuTree_new([widget |-> "button", label |-> label,
                  key |-> menu_item_scan_no_break(config.keybinds, 1, message, ""),
                  on_press |-> <<message>>])

\* The closure menu_item of menu_bar, which captures config.
menu_item(config, label, message) ==
    MenuTree_new([widget |-> "button", label |-> label,
                  key |-> menu_item_scan(config.keybinds, 1, message, ""),
                  on_press |-> <<message>>])

\* The closure menu_key: the key text is the one given.
menu_key(label, key, message) ==
    MenuTree_new([widget |-> "button", label |-> label, key |-> key,
                  on_press |-> <<message>>])

\* menu_bar
menu_bar(config) ==
    [item_height |-> <<"Dynamic", 40>>,
     item_width |-> <<"Uniform", 240>>,
     spacing |-> 4,
     roots |-> <<
        MenuTree_with_children(menu_root(fl("file")), <<
            menu_item(config, fl("new-file"), "New"),
            menu_key(fl("new-window"), "Ctrl + Shift + N", "Todo"),
            MenuTree_new(horizontal_rule),
            menu_item(config, fl("open-file"), "OpenFileDialog"),
            MenuTree_with_children(menu_folder(fl("open-recent")),
                <<menu_item(config, fl("todo"), "Todo")>>),
            MenuTree_new(horizontal_rule),
            menu_item(config, fl("save"), "Save"),
            menu_key(fl("save-as"), "Ctrl + Shift + S", "Todo"),
            MenuTree_new(horizontal_rule),
            menu_item(config, fl("revert-all-changes"), "Todo"),
            MenuTree_new(horizontal_rule),
            menu_item(config, fl("document-statistics"), "Todo"),
            menu_item(config, fl("document-type"), "Todo"),
            menu_item(config, fl("encoding"), "Todo"),
            menu_item(config, fl("print"), "Todo"),
            MenuTree_new(horizontal_rule),
            menu_key(fl("quit"), "Ctrl + Q", "Todo")>>),
        MenuTree_with_children(menu_root(fl("edit")), <<
            menu_key(fl("undo"), "Ctrl + Z", "Todo"),
            menu_key(fl("redo"), "Ctrl + Shift + Z", "Todo"),
            MenuTree_new(horizontal_rule),
            menu_key(fl("cut"), "Ctrl + X", "Todo"),
            menu_key(fl("copy"), "Ctrl + C", "Todo"),
            menu_key(fl("paste"), "Ctrl + V", "Todo"),
            MenuTree_new(horizontal_rule),
            menu_key(fl("find"), "Ctrl + F", "Todo"),
            menu_key(fl("replace"), "Ctrl + H", "Todo"),
            MenuTree_new(horizontal_rule),
            menu_item(config, fl("spell-check"), "Todo")>>),
        MenuTree_with_children(menu_root(fl("view")), <<
            MenuTree_with_children(menu_folder(fl("indentation")), <<
                menu_item(config, fl("automatic-indentation"), "Todo"),
                MenuTree_new(horizontal_rule),
                menu_item(config, fl_tab_width("tab-width", 1), "Todo"),
                menu_item(config, fl_tab_width("tab-width", 2), "Todo"),
                menu_item(config, fl_tab_width("tab-width", 4), "Todo"),
                menu_item(config, fl_tab_width("tab-width", 8), "Todo"),
                MenuTree_new(horizontal_rule),
                menu_item(config, fl("convert-indentation-to-spaces"), "Todo"),
                menu_item(config, fl("convert-indentation-to-tabs"), "Todo")>>),
            MenuTree_new(horizontal_rule),
            menu_item(config, fl("word-wrap"), "Todo"),
            menu_item(config, fl("show-line-numbers"), "Todo"),
            menu_item(config, fl("highlight-current-line"), "Todo"),
            menu_item(config, fl("syntax-highlighting"), "Todo"),
            MenuTree_new(horizontal_rule),
            menu_key(fl("settings"), "Ctrl + ,", "Todo"),
            MenuTree_new(horizontal_rule),
            menu_item(config, fl("keyboard-shortcuts"), "Todo"),
            MenuTree_new(horizontal_rule),
            menu_item(config, fl("about-cosmic-text-editor"), "Todo")>>)
     >>]

\* A call of menu_bar(&cfg).
MenuBar ==
    /\ Idle
    /\ last' = [op |-> "menu_bar", ret |-> menu_bar(cfg)]
    /\ UNCHANGED <<cfg, host_dark>>

---------------------------------------------------------------------------
(* The whole: every helper, on every kind of configuration *)

\* In the whole the numeric and the pattern inputs are the corner cases; SpecFont
\* and SpecFind range over them.
CornerZooms == {I8Min, -1, 0, 1, I8Max}

Init ==
    /\ cfg \in {[Config_default EXCEPT !.app_theme = t,
                                       !.find_use_regex = r,
                                       !.find_case_sensitive = c,
                                       !.font_size = f,
                                       !.keybinds = k] :
                    t \in AppTheme, r \in BOOLEAN, c \in BOOLEAN,
                    f \in {0, Config_default.font_size}, k \in KeybindTables}
    /\ host_dark \in BOOLEAN
    /\ last = [op |-> "none"]

Next ==
    \/ \E z \in CornerZooms : FontSizeAdjusted(z)
    \/ \E z \in CornerZooms : Metrics(z)
    \/ \E pattern \in SeqsUpTo(PatChars, 1) : FindRegex(pattern)
    \/ SyntaxTheme
    \/ MenuBar
    \/ Return

Spec == Init /\ [][Next]_vars

---------------------------------------------------------------------------
(* Claims about the theme, the menu and the configuration as a whole *)

\* C6: syntax_theme is syntax_theme_dark under Dark, syntax_theme_light under
\* Light, whatever the host prefers, and under System the one the host's
\* preference selects.
C6_SyntaxTheme ==
    last.op = "syntax_theme" =>
        last.ret = CASE cfg.app_theme = "Dark" -> cfg.syntax_theme_dark
                     [] cfg.app_theme = "Light" -> cfg.syntax_theme_light
                     [] cfg.app_theme = "System" ->
                            IF host_dark THEN cfg.syntax_theme_dark
                            ELSE cfg.syntax_theme_light

\* Dark was selected against the host's preference for a light theme.
C6_Witness ==
    /\ last.op = "syntax_theme"
    /\ cfg.app_theme = "Dark"
    /\ ~host_dark
    /\ last.ret = "COSMIC Dark"
    /\ cfg.syntax_theme_dark # cfg.syntax_theme_light

\* The items of a forest, in order.
RECURSIVE Items(_)
Items(trees) ==
    IF trees = <<>> THEN <<>>
    ELSE <<Head(trees).item>> \o Items(Head(trees).children) \o Items(Tail(trees))

\* The leaves bound to a message.
BoundLeaves(bar) ==
    LET items == Items(bar.roots) IN
    {items[i] : i \in {j \in 1..Len(items) :
                          /\ items[j].widget = "button"
                          /\ items[j].on_press # <<>>}}

\* The text of the first entry of the table bound to the message, and the empty
\* string when there is none.
FirstMatch(keybinds, message) ==
    LET hits == {i \in 1..Len(keybinds) : keybinds[i][2] = message} IN
    IF hits = {} THEN ""
    ELSE KeyBind_to_string(
             keybinds[CHOOSE i \in hits : \A j \in hits : i <= j][1])

\* The leaves menu_bar builds with menu_key, and the key text it gives each.
FixedKeys ==
    [label \in {"new-window", "save-as", "quit", "undo", "redo", "cut", "copy",
                "paste", "find", "replace", "settings"} |->
        CASE label = "new-window" -> "Ctrl + Shift + N"
          [] label = "save-as" -> "Ctrl + Shift + S"
          [] label = "quit" -> "Ctrl + Q"
          [] label = "undo" -> "Ctrl + Z"
          [] label = "redo" -> "Ctrl + Shift + Z"
          [] label = "cut" -> "Ctrl + X"
          [] label = "copy" -> "Ctrl + C"
          [] label = "paste" -> "Ctrl + V"
          [] label = "find" -> "Ctrl + F"
          [] label = "replace" -> "Ctrl + H"
          [] label = "settings" -> "Ctrl + ,"]

\* C7 as stated: every leaf bound to a message shows the first entry of the
\* keybinding table bound to that message, or nothing.
C7_EveryLeaf ==
    last.op = "menu_bar" =>
        \A leaf \in BoundLeaves(last.ret) :
            leaf.key = FirstMatch(cfg.keybinds, leaf.on_press[1])

\* C7, amended: every leaf built by menu_item shows the first entry of the
\* keybinding table bound to its message, or nothing when there is none; the
\* eleven leaves built by menu_key show the key text written in menu_bar,
\* whatever the table holds.
C7_ItemLeaves ==
    last.op = "menu_bar" =>
        /\ \A leaf \in BoundLeaves(last.ret) :
               leaf.key = IF leaf.label \in DOMAIN FixedKeys
                          THEN FixedKeys[leaf.label]
                          ELSE FirstMatch(cfg.keybinds, leaf.on_press[1])
        /\ DOMAIN FixedKeys \subseteq {leaf.label : leaf \in BoundLeaves(last.ret)}

\* New is bound twice and shows its first binding; OpenFileDialog is not bound
\* and shows nothing.
C7_Witness ==
    /\ last.op = "menu_bar"
    /\ Len(cfg.keybinds) = 2
    /\ cfg.keybinds[1][2] = "New"
    /\ cfg.keybinds[2][2] = "New"
    /\ cfg.keybinds[1][1] # cfg.keybinds[2][1]
    /\ \E leaf \in BoundLeaves(last.ret) :
           /\ leaf.label = "new-file"
           /\ leaf.key = KeyBind_to_string(cfg.keybinds[1][1])
    /\ \E leaf \in BoundLeaves(last.ret) :
           leaf.label = "open-file" /\ leaf.key = ""

\* C10: no call changes a stored field of Config.
C10_ConfigUnchanged == [][cfg' = cfg]_vars

\* A stored font size of 0 was clamped to 1 in the value returned and is still
\* 0 in the configuration.
C10_Witness ==
    /\ last.op = "font_size_adjusted"
    /\ last.zoom_adj = 0
    /\ last.ret = F32One
    /\ cfg.font_size = 0

===========================================================================
